---- MODULE Spec2Model ----
(***************************************************************************)
(* Ingestion pipeline of 1_ingestion/ingest_pipeline.py: the batch driver  *)
(* main(), its stage functions, and the five directories they work on.     *)
(* Every external service (GROBID, the language-model endpoint, the        *)
(* splitter, the filesystem calls that the code guards with try/except)    *)
(* answers nondeterministically with one of the outcomes the code          *)
(* distinguishes.                                                          *)
(***************************************************************************)
EXTENDS Integers, Sequences, FiniteSets, TLC

\* ------------------------------------------------------------------ bounds
NumDocs == 2
MaxVisits == 4
NumChunks == 2
MaxTopK == 2
MaxSearches == 3
MaxTextLen == 4
MaxCells == 2
MaxRows == 2
MaxLabelLen == 3
MaxNodes == 3
MaxParagraphs == 1
MaxInline == 2
MaxRecordChunks == 2

Stems == 1..NumDocs

Absent == "absent"

\* --------------------------------------------------------------- state
VARIABLES
    pc,                 \* position of main(): idle between runs
    FORCE_REPROCESS_PDF,\* ingest_config.FORCE_REPROCESS_PDF
    template,           \* prompts.VALIDATION_ENRICHMENT_PROMPT
    pdfs,               \* PDF_SOURCE_DIR: stems s with s.pdf present
    xml_output,         \* XML_OUTPUT_DIR: stem -> body of s.xml, or Absent
    cleaned_md,         \* MD_CLEANED_DIR: stem -> text of s.md, or Absent
    quarantined,        \* QUARANTINED_DIR: stems s with s.pdf present
    processed_data,     \* PROCESSED_DATA_DIR: stem -> content of s.json, or NoRecord
    pdf_files,          \* main: the part of the glob list not yet iterated
    pdf_path,           \* main: the loop variable (a stem), 0 before the first iteration
    enriched_data,      \* main: value returned by validate_and_enrich_with_llm
    chunks,             \* main: value returned by chunk_text_with_txtai
    clock,              \* time.time(): ticks once per loop iteration, over all runs
    \* history of the current run (not read by the program)
    probe,              \* result of the liveness probe of this run
    entered,            \* stem -> number of loop iterations started for it
    outcome,            \* stem -> how its loop iteration ended
    convRequests,       \* POSTs to /api/processFulltextDocument for pdf_path
    llmRequests,        \* POSTs to the language-model endpoint for pdf_path
    stages,             \* the stage functions invoked for pdf_path, in order
    reply,              \* the endpoint's answer for pdf_path: "none", "good", "bad"
    handled,            \* stems passed to quarantine_file and not supplied since
    atStart,            \* the directories as they were when the run started
    \* 3_agents/tools/database_tools.py
    embeddings,         \* the module global: the loaded index, or None
    searches,           \* calls of embeddings.search made so far
    tool_call,          \* the last tool call: function, argument, what it met
    tool_result,        \* the value the last tool call returned
    \* the text functions of ingest_pipeline.py, called on their own
    norm_call,          \* the function called and its argument
    norm_result,        \* the value it returned
    \* 2_database/build_database.py
    database,           \* DATABASE_PATH: the saved index, or NoDatabase
    build               \* the last call of main or of prepare_data_for_indexing

vars == << pc, FORCE_REPROCESS_PDF, template, pdfs, xml_output, cleaned_md,
           quarantined, processed_data, pdf_files, pdf_path, enriched_data,
           chunks, clock, probe, entered, outcome, convRequests, llmRequests,
           stages, reply, handled, atStart,
           embeddings, searches, tool_call, tool_result, norm_call, norm_result,
           database, build >>

toolVars == << embeddings, searches, tool_call, tool_result >>
normVars == << norm_call, norm_result >>
buildVars == << database, build >>
fsVars == << pdfs, xml_output, cleaned_md, quarantined, processed_data >>
cfgVars == << FORCE_REPROCESS_PDF, template >>
histVars == << probe, entered, outcome, convRequests, llmRequests, stages, reply,
              handled, atStart >>
docVars == << convRequests, llmRequests, stages, reply >>

Dirs == [ pdfs |-> pdfs, xml_output |-> xml_output, cleaned_md |-> cleaned_md,
          quarantined |-> quarantined, processed_data |-> processed_data ]

\* -------------------------------------------------- prompt formatting
\* A template is a sequence of tokens: "text" is literal text without braces,
\* "{" and "}" are the brace characters, any other token is text that may
\* stand between braces (a field name).
ShippedTemplate ==
    << "text", "{", "json_example", "}", "text", "{", "markdown_text", "}", "text" >>

TestTemplate == << "text", "{", "markdown_text", "}" >>

Templates == { ShippedTemplate, TestTemplate }

FormatError == << "KeyError" >>

\* str.format(markdown_text = text): every {name} is a replacement field and
\* name is looked up among the keyword arguments; an unknown name raises.
RECURSIVE Format(_, _)
Format(tpl, text) ==
    IF tpl = << >> THEN << >>
    ELSE IF Head(tpl) = "{" THEN
        IF Len(tpl) < 3 \/ tpl[3] # "}" THEN FormatError
        ELSE IF tpl[2] # "markdown_text" THEN FormatError
        ELSE LET rest == Format(SubSeq(tpl, 4, Len(tpl)), text)
             IN  IF rest = FormatError THEN FormatError ELSE << text >> \o rest
    ELSE IF Head(tpl) = "}" THEN FormatError
    ELSE LET rest == Format(Tail(tpl), text)
         IN  IF rest = FormatError THEN FormatError ELSE << Head(tpl) >> \o rest


\* ------------------------------------------------ external answers
ProbeResponses == { "200", "non200", "connection_error" }

\* answers of POST /api/processFulltextDocument that end in one of the four
\* failure branches of process_pdf_with_grobid
GrobidFailures == { "non200", "timeout", "network_error", "unexpected_error" }

\* bodies of a 200 answer: TEI with a titleStmt, TEI without one
XmlBodies == { "tei_valid", "tei_no_titleStmt" }

MarkdownText == "markdown"

RequiredKeys == { "cleaned_text", "summary", "entities" }

\* what json.loads(content) can return: an object, an array, null
JsonValue(type, keys, text) ==
    [ type |-> type, keys |-> keys, cleaned_text |-> text,
      summary |-> "summary", entities |-> << "e1", "e2", "e1" >> ]

JsonValues ==
    { JsonValue("dict", RequiredKeys, "body"),
      JsonValue("dict", RequiredKeys, ""),
      JsonValue("dict", RequiredKeys \ { "entities" }, "body"),
      JsonValue("dict", {}, ""),
      JsonValue("list", RequiredKeys, ""),
      JsonValue("null", {}, "") }

None == JsonValue("null", {}, "")

\* outcomes of call_llm: the value it returns, or "raises" when an exception
\* other than RequestException, JSONDecodeError and KeyError leaves it
LlmOutcomes ==
    { [ kind |-> k, value |-> None ] : k \in { "request_failed", "unparseable", "raises" } }
    \cup { [ kind |-> "json", value |-> v ] : v \in JsonValues }

\* the answers of a well-behaved endpoint: an object with the three keys and
\* a cleaned text that is not empty
GoodReplies ==
    { o \in LlmOutcomes : /\ o.kind = "json"
                          /\ o.value.type = "dict"
                          /\ RequiredKeys \subseteq o.value.keys
                          /\ o.value.cleaned_text # "" }

\* what the splitter can return for a text
SplitterResults(text) ==
    IF text = "" THEN { << >> } ELSE { << "c1", "c2" >> }

\* content of a record file that does not exist
NoRecord == [ file |-> "absent", source_filename |-> 0, document_summary |-> "",
              key_entities |-> << >>, chunks |-> << >>, processed_timestamp |-> 0 ]

\* --------------------------------------------------- stage functions
\* variant: any HTTP answer counts as alive, only a connection error does not
check_grobid_server_AnyStatus(response) == response # "connection_error"

\* check_grobid_server: True only for status 200
check_grobid_server(response) == response = "200"

\* variant: a failed move loses the file
quarantine_file_Lossy(s, moved) ==
    [ pdfs        |-> pdfs \ { s },
      quarantined |-> IF moved THEN quarantined \cup { s } ELSE quarantined ]

\* variant: the whole source directory is moved, not the one file
quarantine_file_WholeDirectory(s, moved) ==
    [ pdfs        |-> IF moved THEN {} ELSE pdfs,
      quarantined |-> IF moved THEN quarantined \cup pdfs ELSE quarantined ]

\* quarantine_file: shutil.move inside try/except; moved = FALSE is the
\* except branch, which only logs
quarantine_file(s, moved) ==
    [ pdfs        |-> IF moved THEN pdfs \ { s } ELSE pdfs,
      quarantined |-> IF moved THEN quarantined \cup { s } ELSE quarantined ]

\* variant: the skip test without the force flag
SkipDocument_IgnoringForce(s) == cleaned_md[s] # Absent

\* main: the skip test at the head of the loop body
SkipDocument(s) == cleaned_md[s] # Absent /\ ~FORCE_REPROCESS_PDF

\* call_llm: the value handed back to validate_and_enrich_with_llm
call_llm(o) == IF o.kind = "json" THEN o.value ELSE None

\* Python truth value and membership test of a parsed JSON value
Truthy(v) == v.type # "null" /\ v.keys # {}
ResponseValid(v) == Truthy(v) /\ \A k \in RequiredKeys : k \in v.keys

\* convert_xml_to_md, line 193: soup.find('titleStmt').find('title') raises
\* AttributeError when the markup has no titleStmt
Parses(body) == body = "tei_valid"

\* variant: a failed stage is followed by another attempt on the same file
Continue_Retry == "convert"

\* main: `continue` after a failed stage goes back to the head of the loop
Continue == "loop"

\* the for statement of main: the iteration moves on to the rest of the list
NextFiles(files) == Tail(files)

\* list(glob("*.pdf")): the files of the source directory in some order
GlobLists(S) ==
    { f \in [ 1..Cardinality(S) -> S ] : \A i, j \in 1..Cardinality(S) : f[i] = f[j] => i = j }

\* variant: the chunk list is stored in reverse order
final_output_Reversed(s, data, cs, now) ==
    [ file |-> "written", source_filename |-> s, document_summary |-> data.summary,
      key_entities |-> data.entities,
      chunks |-> [ i \in 1..Len(cs) |-> cs[Len(cs) + 1 - i] ],
      processed_timestamp |-> now ]

\* main: the record assembled at step 5
final_output(s, data, cs, now) ==
    [ file |-> "written", source_filename |-> s, document_summary |-> data.summary,
      key_entities |-> data.entities, chunks |-> cs, processed_timestamp |-> now ]

\* validate_and_enrich_with_llm, line 312: the prompt built for a document
Prompt(s) == Format(template, cleaned_md[s])

\* validate_and_enrich_with_llm: the value it returns for outcome o of
\* call_llm; None after an exception (formatting the prompt, or inside
\* call_llm) and after a response that fails the validation of line 316
validate_and_enrich_with_llm(s, o) ==
    IF Prompt(s) = FormatError \/ o.kind = "raises" THEN None
    ELSE IF ~ResponseValid(call_llm(o)) THEN None
    ELSE call_llm(o)

\* the request is issued unless formatting the prompt raised first
LlmRequested(s) == Prompt(s) # FormatError

\* main, line 427: enriched_data["cleaned_text"] can be evaluated
Subscriptable(v) == v.type = "dict"

\* chunk_text_with_txtai: the splitter's result, or [] after an exception
chunk_text_with_txtai(text) == SplitterResults(text) \cup { << >> }

\* save_processed_data: open + json.dump inside try/except; the except
\* branch (the file could not be opened for writing) only logs
SaveResults == { "written", "not_opened" }

\* variant: the record is written under every name
save_processed_data_Everywhere(s, data, w) ==
    IF w = "written" THEN [ x \in Stems |-> data ] ELSE processed_data

save_processed_data(s, data, w) ==
    IF w = "written" THEN [ processed_data EXCEPT ![s] = data ] ELSE processed_data

NoCounts == [ s \in Stems |-> 0 ]

\* ------------------------------------------------- database tools
\* 3_agents/tools/database_tools.py.  A chunk of the index is named by its
\* number; 0 is an identifier no chunk has.
ChunkIds == 1..NumChunks

\* the module global before a successful load, and after a failed one
NoEmbeddings == [ loaded |-> FALSE, rows |-> {} ]

\* _load_database: None when the path does not exist or loading raises,
\* otherwise the index found on disk
LoadResults ==
    { NoEmbeddings } \cup { [ loaded |-> TRUE, rows |-> R ] : R \in SUBSET ChunkIds }

\* lists of at most limit distinct rows of the index
RowLists(S, limit) ==
    { f \in UNION { [ 1..n -> S ] : n \in 0..limit } :
        \A i, j \in DOMAIN f : f[i] = f[j] => i = j }

\* embeddings.search(query, limit = top_k): it raises, or returns rows; the
\* rows carry the fields the tool reads ("rows") or lack one of them
\* ("malformed")
SearchAnswers(emb, top_k) ==
    { [ kind |-> "raises", rows |-> << >> ] }
    \cup { [ kind |-> k, rows |-> f ] : k \in { "rows", "malformed" }, f \in RowLists(emb.rows, top_k) }

\* embeddings.search("SELECT ... WHERE id = '<chunk_id>'"): it raises, or
\* returns the rows whose id is chunk_id
SelectAnswers(emb, chunk_id) ==
    { [ kind |-> "raises", rows |-> << >> ] }
    \cup { [ kind |-> k, rows |-> IF chunk_id \in emb.rows THEN << chunk_id >> ELSE << >> ] :
             k \in { "rows", "malformed" } }

\* a returned string: its fixed text and the identifiers formatted into it
ToolOutput(text, ids) == [ text |-> text, ids |-> ids ]

\* an exception leaving the tool instead of a returned string
ToolRaised == ToolOutput("Exception", << >>)

NoResult == ToolOutput("", << >>)
NoCall == [ fn |-> "none", arg |-> 0, available |-> FALSE, answer |-> "none", empty |-> FALSE,
            before |-> 0 ]

\* the tool reaches embeddings.search only past the test of line 70 / 107
SearchIssued(emb) == emb.loaded

\* variant: no except clause, an error of the search leaves the tool
query_database_Uncaught(emb, answer) ==
    IF ~emb.loaded THEN
        ToolOutput("Database is not available. Please ensure it has been built correctly.", << >>)
    ELSE IF answer.kind = "raises" THEN ToolRaised
    ELSE IF answer.rows = << >> THEN
        ToolOutput("No relevant information was found in the database for your query.", << >>)
    ELSE IF answer.kind = "malformed" THEN ToolRaised
    ELSE ToolOutput("Found relevant chunks for your query:", answer.rows)

\* query_database, lines 70-91
query_database(emb, answer) ==
    IF ~emb.loaded THEN
        ToolOutput("Database is not available. Please ensure it has been built correctly.", << >>)
    ELSE IF answer.kind = "raises" THEN
        ToolOutput("An error occurred while searching the database. Please check the logs.", << >>)
    ELSE IF answer.rows = << >> THEN
        ToolOutput("No relevant information was found in the database for your query.", << >>)
    ELSE IF answer.kind = "malformed" THEN
        ToolOutput("An error occurred while searching the database. Please check the logs.", << >>)
    ELSE ToolOutput("Found relevant chunks for your query:", answer.rows)

\* get_chunk_by_id, lines 107-129
get_chunk_by_id(emb, chunk_id, answer) ==
    IF ~emb.loaded THEN
        ToolOutput("Database is not available. Please ensure it has been built correctly.", << >>)
    ELSE IF answer.kind = "raises" THEN
        ToolOutput("An error occurred while retrieving the chunk. Please check the logs.", << >>)
    ELSE IF answer.rows = << >> THEN
        ToolOutput("The specified chunk ID does not exist in the database.", << chunk_id >>)
    ELSE IF answer.kind = "malformed" THEN
        ToolOutput("An error occurred while retrieving the chunk. Please check the logs.", << >>)
    ELSE ToolOutput("Content for Chunk ID:", << answer.rows[1] >>)

\* what a call met: recorded with the call
CallRecord(fn, arg, emb, answer) ==
    [ fn |-> fn, arg |-> arg, available |-> emb.loaded,
      answer |-> IF emb.loaded THEN answer.kind ELSE "none",
      empty |-> emb.loaded /\ answer.rows = << >>,
      before |-> searches ]

\* ------------------------------------------------ text functions
\* clean_text, table_to_markdown and the body of convert_xml_to_md.  A
\* string is the sequence of its characters.
Whitespace == { " ", "\t", "\n" }
Alphabet == { "a", "b" } \cup Whitespace

Strings == UNION { [ 1..k -> Alphabet ] : k \in 0..MaxTextLen }

\* str.lstrip(), str.rstrip(), str.strip()
RECURSIVE lstrip(_)
lstrip(text) ==
    IF text # << >> /\ Head(text) \in Whitespace THEN lstrip(Tail(text)) ELSE text

RECURSIVE rstrip(_)
rstrip(text) ==
    IF text # << >> /\ text[Len(text)] \in Whitespace
    THEN rstrip(SubSeq(text, 1, Len(text) - 1))
    ELSE text

strip(text) == rstrip(lstrip(text))

\* re.sub(r'\s+', ' ', text): every maximal run of whitespace becomes " "
RECURSIVE re_sub(_)
re_sub(text) ==
    IF text = << >> THEN << >>
    ELSE IF Head(text) \in Whitespace THEN << " " >> \o re_sub(lstrip(text))
    ELSE << Head(text) >> \o re_sub(Tail(text))

\* variant: the ends are not stripped
clean_text_Unstripped(text) == re_sub(text)

\* clean_text, lines 146-147
clean_text(text) == strip(re_sub(text))

\* texts of table cells, rows and tables
CellTexts == { << "a" >>, << " ", "a", "\n", "b" >> }
Rows == UNION { [ 1..k -> CellTexts ] : k \in 0..MaxCells }
Tables == UNION { [ 1..n -> Rows ] : n \in 0..MaxRows }

\* sep.join(items)
RECURSIVE join(_, _)
join(items, sep) ==
    IF items = << >> THEN << >>
    ELSE IF Len(items) = 1 THEN items[1]
    ELSE items[1] \o << sep >> \o join(Tail(items), sep)

\* table_to_markdown, lines 157-158: cells and the line of a row
cells(row) == [ i \in 1..Len(row) |-> clean_text(row[i]) ]
RowLine(row) == << "| " >> \o join(cells(row), " | ") \o << " |" >>

\* table_to_markdown, line 161
separator(row) ==
    << "|" >> \o join([ i \in 1..Len(row) |-> << "---" >> ], "|") \o << "|" >>

\* the list markdown_table built by the loop of lines 156-163
RECURSIVE markdown_table(_, _)
markdown_table(rows, header_processed) ==
    IF rows = << >> THEN << >>
    ELSE << RowLine(Head(rows)) >>
         \o (IF header_processed THEN << >> ELSE << separator(Head(rows)) >>)
         \o markdown_table(Tail(rows), TRUE)

\* variant: header_processed is never set
RECURSIVE markdown_table_NoFlag(_)
markdown_table_NoFlag(rows) ==
    IF rows = << >> THEN << >>
    ELSE << RowLine(Head(rows)), separator(Head(rows)) >> \o markdown_table_NoFlag(Tail(rows))

table_to_markdown_SeparatorEveryRow(table_element) ==
    join(markdown_table_NoFlag(table_element), "\n") \o << "\n" >>

\* table_to_markdown, line 165
table_to_markdown(table_element) ==
    join(markdown_table(table_element, FALSE), "\n") \o << "\n" >>

\* the n attribute of a head element: a string over digits and dots, or none
NoLabel == << "none" >>
Labels == { NoLabel } \cup UNION { [ 1..k -> { "1", "." } ] : k \in 0..MaxLabelLen }

\* head.get('n', '1')
head_get_n(label) == IF label = NoLabel THEN << "1" >> ELSE label

\* str.count
count(text, ch) == Cardinality({ i \in DOMAIN text : text[i] = ch })

\* variant: the heading of a section with n = "1" is at the title's depth
level_Shallow(label) == count(head_get_n(label), ".") + 1

\* convert_xml_to_md, line 211
level(label) == count(head_get_n(label), ".") + 2

\* convert_xml_to_md, line 212
heading_marker(label) == [ i \in 1..level(label) |-> "#" ]

\* the children of <body> and of its top-level divs, in document order: the
\* start of a div (without head, with a head without n, with a head with n),
\* or a p, formula or figure element (a figure with or without table and
\* figDesc).  Elements before the first div are children of <body> itself.
DivKinds == { "div", "div_head", "div_head_n" }
NodeKinds ==
    DivKinds \cup { "p", "formula", "figure", "figure_table", "figure_desc",
                    "figure_table_desc" }
NumberedLabel == << "1", ".", "1" >>
NodeLabel(node) == IF node = "div_head_n" THEN NumberedLabel ELSE NoLabel

NoAbstract == -1
Bodies == UNION { [ 1..k -> NodeKinds ] : k \in 0..MaxNodes }

\* the children of an element that carries text, in document order: a text
\* node (a word or a blank), a <ref type="bibr">, a <ref> of another type, a
\* <note place="foot">, a <note> of another place.  In the model every
\* text-carrying element of a document has the same children.
InlineKinds == { "text", "blank", "ref_bibr", "ref_figure", "note_foot", "note_other" }
Contents == UNION { [ 1..k -> InlineKinds ] : k \in 0..MaxInline }
PlainContent == << "text" >>
TeiDocuments ==
    [ title : BOOLEAN, abstract : { NoAbstract } \cup 0..MaxParagraphs, body : Bodies,
      inline : { PlainContent } ]
\* documents with citation markers and footnotes in their text
MarkedBodies ==
    { << >>, << "div_head", "p", "formula" >>, << "div_head_n", "figure_table_desc" >> }
MarkedDocuments ==
    [ title : BOOLEAN, abstract : { NoAbstract, 1 }, body : MarkedBodies,
      inline : Contents ]

\* variant: nothing is discarded
decompose_Nothing(soup) == soup
\* convert_xml_to_md, lines 187-190: ref.decompose() for every <ref
\* type="bibr"> and note.decompose() for every <note place="foot">
decompose(soup) ==
    [ soup EXCEPT !.inline =
        SelectSeq(soup.inline, LAMBDA x : x \notin { "ref_bibr", "note_foot" }) ]

\* get_text() of a node of each kind
NodeText(kind) ==
    IF kind = "text" THEN "a"
    ELSE IF kind = "blank" THEN " "
    ELSE IF kind = "ref_bibr" THEN "[1]"
    ELSE IF kind = "ref_figure" THEN "Fig"
    ELSE IF kind = "note_foot" THEN "fn"
    ELSE "nb"
\* element.get_text(): the text of the children the element still has
get_text(soup) == [ k \in DOMAIN soup.inline |-> NodeText(soup.inline[k]) ]

\* an entry of markdown_parts: what it is, the element it was made from
\* (the number of the abstract paragraph or of the body node), and the
\* heading depth, and the text extracted from the element
Part(md, src, depth, text) == [ md |-> md, src |-> src, level |-> depth, text |-> text ]

\* convert_xml_to_md, lines 217-228: the entries for one element of a div
ElementParts(node, i, soup) ==
    IF node = "p" THEN << Part("p", i, 0, clean_text(get_text(soup))) >>
    ELSE IF node = "formula" THEN << Part("formula", i, 0, clean_text(get_text(soup))) >>
    ELSE (IF node \in { "figure_table", "figure_table_desc" }
          THEN << Part("table", i, 0, clean_text(get_text(soup))) >> ELSE << >>)
         \o (IF node \in { "figure_desc", "figure_table_desc" }
             THEN << Part("image", i, 0, clean_text(get_text(soup))) >> ELSE << >>)

\* convert_xml_to_md, lines 206-228: the loop over the top-level divs
RECURSIVE BodyParts(_, _, _)
BodyParts(soup, i, in_div) ==
    IF i > Len(soup.body) THEN << >>
    ELSE IF soup.body[i] \in DivKinds THEN
        (IF soup.body[i] = "div" THEN << >>
         ELSE << Part("heading", i, level(NodeLabel(soup.body[i])),
                      clean_text(get_text(soup))) >>)
        \o BodyParts(soup, i + 1, TRUE)
    ELSE IF ~in_div THEN BodyParts(soup, i + 1, FALSE)
    ELSE ElementParts(soup.body[i], i, soup) \o BodyParts(soup, i + 1, TRUE)

\* variant: the paragraphs of the body are emitted before everything else
markdown_parts_ParagraphsFirst(tei) ==
    (IF tei.title THEN << Part("title", 0, 1, clean_text(get_text(decompose(tei)))) >>
     ELSE << >>)
    \o (IF tei.abstract # NoAbstract
        THEN << Part("abstract_heading", 0, 2, << "Abstract" >>) >>
             \o [ j \in 1..tei.abstract |->
                    Part("abstract_p", j, 0, clean_text(get_text(decompose(tei)))) ]
        ELSE << >>)
    \o SelectSeq(BodyParts(decompose(tei), 1, FALSE), LAMBDA x : x.md = "p")
    \o SelectSeq(BodyParts(decompose(tei), 1, FALSE), LAMBDA x : x.md # "p")

\* convert_xml_to_md, lines 192-228: the list markdown_parts
markdown_parts(tei) ==
    LET soup == decompose(tei) IN
    (IF soup.title THEN << Part("title", 0, 1, clean_text(get_text(soup))) >> ELSE << >>)
    \o (IF soup.abstract # NoAbstract
        THEN << Part("abstract_heading", 0, 2, << "Abstract" >>) >>
             \o [ j \in 1..soup.abstract |->
                    Part("abstract_p", j, 0, clean_text(get_text(soup))) ]
        ELSE << >>)
    \o BodyParts(soup, 1, FALSE)

\* a call of one of the functions, and its result
NoTei == [ title |-> FALSE, abstract |-> NoAbstract, body |-> << >>, inline |-> << >> ]
NormCall(fn, text, table, label, tei) ==
    [ fn |-> fn, text |-> text, table |-> table, label |-> label, tei |-> tei ]
NoNormCall == NormCall("none", << >>, << >>, NoLabel, NoTei)
NormCalls ==
    { NormCall("clean_text", x, << >>, NoLabel, NoTei) : x \in Strings }
    \cup { NormCall("table_to_markdown", << >>, x, NoLabel, NoTei) : x \in Tables }
    \cup { NormCall("heading", << >>, << >>, x, NoTei) : x \in Labels }
    \cup { NormCall("convert_xml_to_md", << >>, << >>, NoLabel, x) : x \in TeiDocuments }
NormResult(text, parts) == [ done |-> TRUE, text |-> text, parts |-> parts ]
NoNormResult == [ done |-> FALSE, text |-> << >>, parts |-> << >> ]

\* ------------------------------------------------ database build
\* 2_database/build_database.py.  A file name is the sequence of its
\* components: << "1", ".pdf" >> is 1.pdf.
PadWidth == 3
PdfName(s) == << ToString(s), ".pdf" >>
JsonFileName(s) == << ToString(s), ".json" >>
\* Path(name).stem: the name without its last suffix
PathStem(name) == IF Len(name) > 1 THEN SubSeq(name, 1, Len(name) - 1) ELSE name

\* the decimal digits of a natural number
RECURSIVE Digits(_)
Digits(n) == IF n < 10 THEN << ToString(n) >> ELSE Digits(n \div 10) \o << ToString(n % 10) >>
\* variant: the number is cut to its last PadWidth digits
Format03d_Truncated(n) ==
    LET d == Digits(n) IN
    IF Len(d) > PadWidth THEN SubSeq(d, Len(d) - PadWidth + 1, Len(d))
    ELSE [ i \in 1..(PadWidth - Len(d)) |-> "0" ] \o d
\* f"{n:03d}": the digits, padded with zeros on the left to PadWidth
Format03d(n) ==
    LET d == Digits(n) IN
    IF Len(d) >= PadWidth THEN d ELSE [ i \in 1..(PadWidth - Len(d)) |-> "0" ] \o d

\* the content of a record file as json.load returns it
JsonData(has_source, name, cs, summary, entities) ==
    [ has_source |-> has_source, source_filename |-> name, chunks |-> cs,
      document_summary |-> summary, key_entities |-> entities ]
NoJsonData == JsonData(FALSE, << >>, << >>, "", << >>)
\* json.load of the record the pipeline wrote for stem s
LoadedRecord(rec) ==
    JsonData(TRUE, PdfName(rec.source_filename), rec.chunks, rec.document_summary,
             rec.key_entities)

\* prepare_data_for_indexing: one entry per chunk, in chunk order
prepare_data_for_indexing(json_data) ==
    LET source_filename ==
            IF json_data.has_source THEN json_data.source_filename ELSE << "Unknown" >>
    IN  [ i \in 1..Len(json_data.chunks) |->
            [ id |-> PathStem(source_filename) \o << "_chunk_" >> \o Format03d(i),
              text |-> json_data.chunks[i],
              source_filename |-> source_filename,
              document_summary |-> json_data.document_summary,
              key_entities |-> json_data.key_entities ] ]

\* the records the pipeline writes: the enrichment of a well-behaved
\* endpoint and the two chunks of the splitter
PipelineRecords(s) ==
    UNION { { final_output(s, o.value, cs, 1) : cs \in SplitterResults(o.value.cleaned_text) } :
              o \in GoodReplies }

\* the saved index: absent, or the entries an earlier build stored for the
\* records of some documents
NoDatabase == [ exists |-> FALSE, rows |-> {} ]
IndexEntries(S) ==
    UNION { { prepare_data_for_indexing(LoadedRecord(rec))[i] :
                i \in 1..Len(rec.chunks) } : rec \in UNION { PipelineRecords(s) : s \in S } }
Databases == { NoDatabase } \cup { [ exists |-> TRUE, rows |-> IndexEntries(S) ] : S \in SUBSET Stems }

\* load_or_initialize_embeddings, lines 50-68: the rows of the returned
\* Embeddings and indexed_files.  Without a saved index line 66 reads
\* main_config.SENTENCE_TRANSFORMER_MODEL, which config/main_config.py does
\* not define: the AttributeError leaves main.
LoadOutcomes(db) ==
    IF ~db.exists THEN { [ kind |-> "raises", rows |-> {}, indexed_files |-> {} ] }
    ELSE { [ kind |-> "loaded", rows |-> db.rows,
             indexed_files |-> { r.source_filename : r \in db.rows } ],
           [ kind |-> "reset", rows |-> {}, indexed_files |-> {} ] }

\* variant: a record is new when the name of its source document is not in
\* indexed_files
files_to_index_BySource(all_json_files, indexed_files) ==
    SelectSeq(all_json_files, LAMBDA s : PdfName(s) \notin indexed_files)
\* main, line 113: the record files whose own name is not in indexed_files
files_to_index(all_json_files, indexed_files) ==
    SelectSeq(all_json_files, LAMBDA s : JsonFileName(s) \notin indexed_files)

\* main, lines 121-131: the entries of the files that could be read, in
\* the order of files_to_index
RECURSIVE all_new_data(_, _)
all_new_data(files, readable) ==
    IF files = << >> THEN << >>
    ELSE (IF Head(files) \in readable
          THEN prepare_data_for_indexing(LoadedRecord(processed_data[Head(files)]))
          ELSE << >>)
         \o all_new_data(Tail(files), readable)

\* embeddings.index(documents) of the txtai library, whose code is not in
\* the repository: the index holds the documents only, or the documents
\* and the rows of other ids it held before
IndexResults(rows, documents) ==
    LET new == { documents[i] : i \in DOMAIN documents } IN
    { new, new \cup { r \in rows : \A d \in new : d.id # r.id } }

\* a call of main or of prepare_data_for_indexing, and what it did
BuildRecord(fn, json_data, before, loaded, prepared, result) ==
    [ fn |-> fn, json_data |-> json_data, before |-> before, loaded |-> loaded,
      prepared |-> prepared, outcome |-> result ]
NoBuild == BuildRecord("none", NoJsonData, NoDatabase, {}, << >>, "none")

\* the arguments prepare_data_for_indexing is called with on its own:
\* records with and without source_filename, with few chunks and with as
\* many as the padding width has values
SourceNames == { << "1", ".pdf" >>, << "1", ".v2", ".pdf" >>, << "1" >>, << >> }
ChunkCounts == 0..MaxRecordChunks \cup { 10 ^ (PadWidth - 1), 10 ^ PadWidth + 1 }
PrepareCalls ==
    { JsonData(h, n, [ i \in 1..k |-> "c" ], "", << >>) :
        h \in BOOLEAN, n \in SourceNames, k \in ChunkCounts }

\* ------------------------------------------------------------ Init
\* the pipeline before its first run
PipelineInit ==
    /\ pc = "idle"
    /\ FORCE_REPROCESS_PDF \in BOOLEAN
    /\ template \in Templates
    /\ pdfs \in SUBSET Stems
    /\ xml_output = [ s \in Stems |-> Absent ]
    /\ cleaned_md = [ s \in Stems |-> Absent ]
    /\ quarantined = {}
    /\ processed_data = [ s \in Stems |-> NoRecord ]
    /\ pdf_files = << >>
    /\ pdf_path = 0
    /\ enriched_data = None
    /\ chunks = << >>
    /\ clock = 0
    /\ probe = "none"
    /\ entered = NoCounts
    /\ outcome = [ s \in Stems |-> "none" ]
    /\ convRequests = 0
    /\ llmRequests = 0
    /\ stages = << >>
    /\ reply = "none"
    /\ handled = {}
    /\ atStart = Dirs

\* database_tools before _load_database has run
ToolsInit ==
    /\ embeddings = NoEmbeddings
    /\ searches = 0
    /\ tool_call = NoCall
    /\ tool_result = NoResult

\* no text function has been called
NormalizerIdle ==
    /\ norm_call = NoNormCall
    /\ norm_result = NoNormResult

\* no index has been saved and the build has not run
BuildIdle ==
    /\ database = NoDatabase
    /\ build = NoBuild

Init ==
    /\ PipelineInit
    /\ ToolsInit
    /\ NormalizerIdle
    /\ BuildIdle

\* --------------------------------------------------------- actions
\* a PDF is put into the source directory from outside, between runs; it is
\* a new file, or the file taken back out of the quarantine directory
Supply(s) ==
    /\ pc = "idle"
    /\ s \notin pdfs
    /\ pdfs' = pdfs \cup { s }
    /\ \E taken \in BOOLEAN :
        quarantined' = IF taken THEN quarantined \ { s } ELSE quarantined
    /\ handled' = handled \ { s }
    /\ atStart' = [ atStart EXCEPT !.pdfs = pdfs', !.quarantined = quarantined' ]
    /\ UNCHANGED << pc, cfgVars, xml_output, cleaned_md, processed_data,
                    pdf_files, pdf_path, enriched_data, chunks, clock, probe, entered,
                    outcome, docVars, toolVars, normVars, buildVars >>

\* main() is called
StartRun ==
    /\ pc = "idle"
    /\ clock + Cardinality(pdfs) <= MaxVisits
    /\ pc' = "probe"
    /\ atStart' = Dirs
    /\ UNCHANGED << cfgVars, fsVars, pdf_files, pdf_path, enriched_data, chunks, clock,
                    probe, entered, outcome, docVars, handled, toolVars, normVars, buildVars >>

\* main, lines 382-384: the liveness probe; return when it is not True
Probe ==
    /\ pc = "probe"
    /\ \E r \in ProbeResponses :
        /\ probe' = r
        /\ pc' = IF check_grobid_server(r) THEN "scan" ELSE "halted"
    /\ UNCHANGED << cfgVars, fsVars, pdf_files, pdf_path, enriched_data, chunks, clock,
                    entered, outcome, docVars, atStart, handled, toolVars, normVars, buildVars >>

\* main, lines 386-391: the directory scan; return when it finds nothing
Scan ==
    /\ pc = "scan"
    /\ \E files \in GlobLists(pdfs) :
        /\ pdf_files' = files
        /\ pc' = IF files = << >> THEN "done" ELSE "loop"
    /\ UNCHANGED << cfgVars, fsVars, pdf_path, enriched_data, chunks, clock, histVars, toolVars, normVars, buildVars >>

\* main, line 393: the for loop is exhausted
Finish ==
    /\ pc = "loop"
    /\ pdf_files = << >>
    /\ pc' = "done"
    /\ UNCHANGED << cfgVars, fsVars, pdf_files, pdf_path, enriched_data, chunks, clock,
                    histVars, toolVars, normVars, buildVars >>

\* main, lines 393-401: the next file is taken and skipped
Skip ==
    /\ pc = "loop"
    /\ pdf_files # << >>
    /\ SkipDocument(Head(pdf_files))
    /\ pdf_path' = Head(pdf_files)
    /\ pdf_files' = NextFiles(pdf_files)
    /\ entered' = [ entered EXCEPT ![Head(pdf_files)] = @ + 1 ]
    /\ outcome' = [ outcome EXCEPT ![Head(pdf_files)] = "skipped" ]
    /\ convRequests' = 0
    /\ llmRequests' = 0
    /\ stages' = << >>
    /\ reply' = "none"
    /\ clock' = clock + 1
    /\ UNCHANGED << pc, cfgVars, fsVars, enriched_data, chunks, probe, atStart, handled, toolVars, normVars, buildVars >>

\* main, lines 393-403: the next file is taken and enters processing
Begin ==
    /\ pc = "loop"
    /\ pdf_files # << >>
    /\ ~SkipDocument(Head(pdf_files))
    /\ pdf_path' = Head(pdf_files)
    /\ pdf_files' = NextFiles(pdf_files)
    /\ entered' = [ entered EXCEPT ![Head(pdf_files)] = @ + 1 ]
    /\ outcome' = [ outcome EXCEPT ![Head(pdf_files)] = "processing" ]
    /\ convRequests' = 0
    /\ llmRequests' = 0
    /\ stages' = << >>
    /\ reply' = "none"
    /\ clock' = clock + 1
    /\ pc' = "convert"
    /\ UNCHANGED << cfgVars, fsVars, enriched_data, chunks, probe, atStart, handled, toolVars, normVars, buildVars >>

\* main, step 1, successful: process_pdf_with_grobid got 200 and wrote the xml
ConvertOk ==
    /\ pc = "convert"
    /\ \E body \in XmlBodies :
        xml_output' = [ xml_output EXCEPT ![pdf_path] = body ]
    /\ convRequests' = convRequests + 1
    /\ stages' = Append(stages, "convert")
    /\ pc' = "normalize"
    /\ UNCHANGED << cfgVars, pdfs, cleaned_md, quarantined, processed_data, pdf_files,
                    pdf_path, enriched_data, chunks, clock, probe, entered, outcome,
                    llmRequests, reply, atStart, handled, toolVars, normVars, buildVars >>

\* main, step 1, failed: process_pdf_with_grobid quarantines and returns
\* False, and main continues with the next file without any cleanup
ConvertFail ==
    /\ pc = "convert"
    /\ \E r \in GrobidFailures, moved \in BOOLEAN :
        /\ pdfs' = quarantine_file(pdf_path, moved).pdfs
        /\ quarantined' = quarantine_file(pdf_path, moved).quarantined
    /\ convRequests' = convRequests + 1
    /\ stages' = Append(stages, "convert")
    /\ outcome' = [ outcome EXCEPT ![pdf_path] = "failed" ]
    /\ handled' = handled \cup { pdf_path }
    /\ pc' = Continue
    /\ UNCHANGED << cfgVars, xml_output, cleaned_md, processed_data, pdf_files, pdf_path,
                    enriched_data, chunks, clock, probe, entered, llmRequests, reply, atStart, toolVars, normVars, buildVars >>

\* main, step 2, successful: convert_xml_to_md parsed the xml and wrote the md
NormalizeOk ==
    /\ pc = "normalize"
    /\ Parses(xml_output[pdf_path])
    /\ cleaned_md' = [ cleaned_md EXCEPT ![pdf_path] = MarkdownText ]
    /\ stages' = Append(stages, "normalize")
    /\ pc' = "enrich"
    /\ UNCHANGED << cfgVars, pdfs, xml_output, quarantined, processed_data, pdf_files,
                    pdf_path, enriched_data, chunks, clock, probe, entered, outcome,
                    convRequests, llmRequests, reply, atStart, handled, toolVars, normVars, buildVars >>

\* main, step 2, failed: an exception in convert_xml_to_md (parsing, or
\* writing the md); it quarantines and unlinks the md, main unlinks the xml
NormalizeFail ==
    /\ pc = "normalize"
    /\ \E moved \in BOOLEAN :
        /\ pdfs' = quarantine_file(pdf_path, moved).pdfs
        /\ quarantined' = quarantine_file(pdf_path, moved).quarantined
    /\ cleaned_md' = [ cleaned_md EXCEPT ![pdf_path] = Absent ]
    /\ xml_output' = [ xml_output EXCEPT ![pdf_path] = Absent ]
    /\ stages' = Append(stages, "normalize")
    /\ outcome' = [ outcome EXCEPT ![pdf_path] = "failed" ]
    /\ handled' = handled \cup { pdf_path }
    /\ pc' = Continue
    /\ UNCHANGED << cfgVars, processed_data, pdf_files, pdf_path, enriched_data, chunks,
                    clock, probe, entered, convRequests, llmRequests, reply, atStart, toolVars, normVars, buildVars >>

\* main, step 3, successful: enriched_data is truthy
EnrichOk ==
    /\ pc = "enrich"
    /\ \E o \in LlmOutcomes :
        /\ Truthy(validate_and_enrich_with_llm(pdf_path, o))
        /\ enriched_data' = validate_and_enrich_with_llm(pdf_path, o)
        /\ reply' = IF o \in GoodReplies THEN "good" ELSE "bad"
    /\ llmRequests' = llmRequests + 1
    /\ stages' = Append(stages, "enrich")
    /\ pc' = "chunk"
    /\ UNCHANGED << cfgVars, fsVars, pdf_files, pdf_path, chunks, clock, probe, entered,
                    outcome, convRequests, atStart, handled, toolVars, normVars, buildVars >>

\* main, step 3, failed: validate_and_enrich_with_llm quarantined and
\* returned None; main unlinks the xml and the md
EnrichFail ==
    /\ pc = "enrich"
    /\ \E o \in LlmOutcomes, moved \in BOOLEAN :
        /\ ~Truthy(validate_and_enrich_with_llm(pdf_path, o))
        /\ reply' = IF o \in GoodReplies THEN "good" ELSE "bad"
        /\ pdfs' = quarantine_file(pdf_path, moved).pdfs
        /\ quarantined' = quarantine_file(pdf_path, moved).quarantined
    /\ llmRequests' = IF LlmRequested(pdf_path) THEN llmRequests + 1 ELSE llmRequests
    /\ xml_output' = [ xml_output EXCEPT ![pdf_path] = Absent ]
    /\ cleaned_md' = [ cleaned_md EXCEPT ![pdf_path] = Absent ]
    /\ stages' = Append(stages, "enrich")
    /\ outcome' = [ outcome EXCEPT ![pdf_path] = "failed" ]
    /\ handled' = handled \cup { pdf_path }
    /\ enriched_data' = None
    /\ pc' = Continue
    /\ UNCHANGED << cfgVars, processed_data, pdf_files, pdf_path, chunks, clock, probe,
                    entered, convRequests, atStart, toolVars, normVars, buildVars >>

\* main, line 427: subscripting a value that is no dict raises TypeError,
\* which nothing in main catches
ChunkRaise ==
    /\ pc = "chunk"
    /\ ~Subscriptable(enriched_data)
    /\ outcome' = [ outcome EXCEPT ![pdf_path] = "raised" ]
    /\ pc' = "raised"
    /\ UNCHANGED << cfgVars, fsVars, pdf_files, pdf_path, enriched_data, chunks, clock,
                    probe, entered, docVars, atStart, handled, toolVars, normVars, buildVars >>

\* main, step 4, successful
ChunkOk ==
    /\ pc = "chunk"
    /\ Subscriptable(enriched_data)
    /\ \E cs \in chunk_text_with_txtai(enriched_data.cleaned_text) :
        /\ cs # << >>
        /\ chunks' = cs
    /\ stages' = Append(stages, "chunk")
    /\ pc' = "persist"
    /\ UNCHANGED << cfgVars, fsVars, pdf_files, pdf_path, enriched_data, clock, probe,
                    entered, outcome, convRequests, llmRequests, reply, atStart, handled, toolVars, normVars, buildVars >>

\* main, step 4, failed: no chunks; main quarantines and unlinks xml and md
ChunkFail ==
    /\ pc = "chunk"
    /\ Subscriptable(enriched_data)
    /\ << >> \in chunk_text_with_txtai(enriched_data.cleaned_text)
    /\ \E moved \in BOOLEAN :
        /\ pdfs' = quarantine_file(pdf_path, moved).pdfs
        /\ quarantined' = quarantine_file(pdf_path, moved).quarantined
    /\ xml_output' = [ xml_output EXCEPT ![pdf_path] = Absent ]
    /\ cleaned_md' = [ cleaned_md EXCEPT ![pdf_path] = Absent ]
    /\ stages' = Append(stages, "chunk")
    /\ outcome' = [ outcome EXCEPT ![pdf_path] = "failed" ]
    /\ handled' = handled \cup { pdf_path }
    /\ chunks' = << >>
    /\ pc' = Continue
    /\ UNCHANGED << cfgVars, processed_data, pdf_files, pdf_path, enriched_data, clock,
                    probe, entered, convRequests, llmRequests, reply, atStart, toolVars, normVars, buildVars >>

\* main, step 5, lines 435-444
Persist ==
    /\ pc = "persist"
    /\ \E w \in SaveResults :
        processed_data' =
            save_processed_data(pdf_path,
                                final_output(pdf_path, enriched_data, chunks, clock), w)
    /\ stages' = Append(stages, "persist")
    /\ pc' = "cleanup"
    /\ UNCHANGED << cfgVars, pdfs, xml_output, cleaned_md, quarantined, pdf_files,
                    pdf_path, enriched_data, chunks, clock, probe, entered, outcome,
                    convRequests, llmRequests, reply, atStart, handled, toolVars, normVars, buildVars >>

\* main, lines 450-460: the source PDF and both intermediate files are unlinked
Cleanup ==
    /\ pc = "cleanup"
    /\ pdfs' = pdfs \ { pdf_path }
    /\ xml_output' = [ xml_output EXCEPT ![pdf_path] = Absent ]
    /\ cleaned_md' = [ cleaned_md EXCEPT ![pdf_path] = Absent ]
    /\ stages' = Append(stages, "clean")
    /\ outcome' = [ outcome EXCEPT ![pdf_path] = "completed" ]
    /\ pc' = "loop"
    /\ UNCHANGED << cfgVars, quarantined, processed_data, pdf_files, pdf_path,
                    enriched_data, chunks, clock, probe, entered, convRequests,
                    llmRequests, reply, atStart, handled, toolVars, normVars, buildVars >>

\* main() has returned or raised; the process is over
EndRun ==
    /\ pc \in { "done", "halted", "raised" }
    /\ pc' = "idle"
    /\ pdf_files' = << >>
    /\ pdf_path' = 0
    /\ enriched_data' = None
    /\ chunks' = << >>
    /\ probe' = "none"
    /\ entered' = NoCounts
    /\ outcome' = [ s \in Stems |-> "none" ]
    /\ convRequests' = 0
    /\ llmRequests' = 0
    /\ stages' = << >>
    /\ reply' = "none"
    /\ atStart' = Dirs
    /\ UNCHANGED << cfgVars, fsVars, clock, handled, toolVars, normVars, buildVars >>

Next ==
    \/ \E s \in Stems : Supply(s)
    \/ StartRun
    \/ Probe
    \/ Scan
    \/ Finish
    \/ Skip
    \/ Begin
    \/ ConvertOk
    \/ ConvertFail
    \/ NormalizeOk
    \/ NormalizeFail
    \/ EnrichOk
    \/ EnrichFail
    \/ ChunkRaise
    \/ ChunkOk
    \/ ChunkFail
    \/ Persist
    \/ Cleanup
    \/ EndRun

Spec == Init /\ [][Next]_vars

\* ------------------------------------------- database tools: steps
pipelineVars == << pc, cfgVars, fsVars, pdf_files, pdf_path, enriched_data, chunks, clock,
                   histVars >>

\* the tools module is imported in a process of its own; the pipeline is
\* not running and its directories are not looked at
InitTools ==
    /\ Init
    /\ ~FORCE_REPROCESS_PDF
    /\ template = ShippedTemplate
    /\ pdfs = {}

\* _load_database()
LoadDatabase ==
    /\ \E e \in LoadResults : embeddings' = e
    /\ UNCHANGED << searches, tool_call, tool_result, pipelineVars, normVars, buildVars >>

\* a call of query_database(query, top_k)
QueryDatabase ==
    /\ searches < MaxSearches
    /\ \E top_k \in 0..MaxTopK :
        \E answer \in SearchAnswers(embeddings, top_k) :
            /\ tool_call' = CallRecord("query_database", top_k, embeddings, answer)
            /\ tool_result' = query_database(embeddings, answer)
    /\ searches' = IF SearchIssued(embeddings) THEN searches + 1 ELSE searches
    /\ UNCHANGED << embeddings, pipelineVars, normVars, buildVars >>

\* a call of get_chunk_by_id(chunk_id)
GetChunkById ==
    /\ searches < MaxSearches
    /\ \E chunk_id \in ChunkIds \cup { 0 } :
        \E answer \in SelectAnswers(embeddings, chunk_id) :
            /\ tool_call' = CallRecord("get_chunk_by_id", chunk_id, embeddings, answer)
            /\ tool_result' = get_chunk_by_id(embeddings, chunk_id, answer)
    /\ searches' = IF SearchIssued(embeddings) THEN searches + 1 ELSE searches
    /\ UNCHANGED << embeddings, pipelineVars, normVars, buildVars >>

NextTools ==
    \/ LoadDatabase
    \/ QueryDatabase
    \/ GetChunkById

SpecTools == InitTools /\ [][NextTools]_vars

\* ------------------------------------------- text functions: steps
\* one of the functions is called on its own, as the unit tests do
InitNormalizer ==
    /\ PipelineInit
    /\ ~FORCE_REPROCESS_PDF
    /\ template = ShippedTemplate
    /\ pdfs = {}
    /\ ToolsInit
    /\ norm_call \in NormCalls
    /\ norm_result = NoNormResult
    /\ BuildIdle

CleanText ==
    /\ norm_call.fn = "clean_text"
    /\ ~norm_result.done
    /\ norm_result' = NormResult(clean_text(norm_call.text), << >>)
    /\ UNCHANGED << norm_call, pipelineVars, toolVars, buildVars >>

TableToMarkdown ==
    /\ norm_call.fn = "table_to_markdown"
    /\ ~norm_result.done
    /\ norm_result' = NormResult(table_to_markdown(norm_call.table), << >>)
    /\ UNCHANGED << norm_call, pipelineVars, toolVars, buildVars >>

Heading ==
    /\ norm_call.fn = "heading"
    /\ ~norm_result.done
    /\ norm_result' = NormResult(heading_marker(norm_call.label), << >>)
    /\ UNCHANGED << norm_call, pipelineVars, toolVars, buildVars >>

ConvertXmlToMd ==
    /\ norm_call.fn = "convert_xml_to_md"
    /\ ~norm_result.done
    /\ norm_result' = NormResult(<< >>, markdown_parts(norm_call.tei))
    /\ UNCHANGED << norm_call, pipelineVars, toolVars, buildVars >>

NextNormalizer ==
    \/ CleanText
    \/ TableToMarkdown
    \/ Heading
    \/ ConvertXmlToMd

SpecNormalizer == InitNormalizer /\ [][NextNormalizer]_vars

\* ------------------------------- convert_xml_to_md on marked-up text
\* the converter is called on a document whose text-carrying elements hold
\* citation markers, other references, footnotes and other notes
InitCitations ==
    /\ PipelineInit
    /\ ~FORCE_REPROCESS_PDF
    /\ template = ShippedTemplate
    /\ pdfs = {}
    /\ ToolsInit
    /\ norm_call \in { NormCall("convert_xml_to_md", << >>, << >>, NoLabel, x) :
                          x \in MarkedDocuments }
    /\ norm_result = NoNormResult
    /\ BuildIdle

SpecCitations == InitCitations /\ [][ConvertXmlToMd]_vars

\* ----------------------------------------- database build: steps
\* the build runs in a process of its own, after pipeline runs have left
\* records in PROCESSED_DATA_DIR; or prepare_data_for_indexing is called on
\* its own
InitBuild ==
    /\ pc = "idle"
    /\ FORCE_REPROCESS_PDF = FALSE
    /\ template = ShippedTemplate
    /\ pdfs = {}
    /\ xml_output = [ s \in Stems |-> Absent ]
    /\ cleaned_md = [ s \in Stems |-> Absent ]
    /\ quarantined = {}
    /\ \/ /\ processed_data \in
                 [ Stems -> { NoRecord } \cup UNION { PipelineRecords(s) : s \in Stems } ]
          /\ \A s \in Stems : processed_data[s] \in { NoRecord } \cup PipelineRecords(s)
          /\ database \in Databases
          /\ build = NoBuild
       \/ /\ processed_data = [ s \in Stems |-> NoRecord ]
          /\ database = NoDatabase
          /\ build \in { BuildRecord("call", x, NoDatabase, {}, << >>, "none") :
                            x \in PrepareCalls }
    /\ pdf_files = << >>
    /\ pdf_path = 0
    /\ enriched_data = None
    /\ chunks = << >>
    /\ clock = 0
    /\ probe = "none"
    /\ entered = NoCounts
    /\ outcome = [ s \in Stems |-> "none" ]
    /\ convRequests = 0
    /\ llmRequests = 0
    /\ stages = << >>
    /\ reply = "none"
    /\ handled = {}
    /\ atStart = Dirs
    /\ ToolsInit
    /\ NormalizerIdle

\* main of build_database.py, from start to return or exception
BuildDatabase ==
    /\ build.fn \in { "none", "main" }
    /\ \E load \in LoadOutcomes(database),
          all_json_files \in GlobLists({ s \in Stems : processed_data[s].file = "written" }),
          readable \in SUBSET { s \in Stems : processed_data[s].file = "written" },
          saved \in BOOLEAN :
        LET todo == files_to_index(all_json_files, load.indexed_files)
            data == all_new_data(todo, readable)
        IN  IF load.kind = "raises" THEN
                /\ build' = BuildRecord("main", NoJsonData, database, {}, << >>, "aborted")
                /\ UNCHANGED database
            ELSE IF todo = << >> THEN
                /\ build' = BuildRecord("main", NoJsonData, database, load.rows, << >>,
                                        "up_to_date")
                /\ UNCHANGED database
            ELSE IF data = << >> THEN
                /\ build' = BuildRecord("main", NoJsonData, database, load.rows, << >>,
                                        "nothing_prepared")
                /\ UNCHANGED database
            ELSE IF ~saved THEN
                /\ build' = BuildRecord("main", NoJsonData, database, load.rows, data,
                                        "aborted")
                /\ UNCHANGED database
            ELSE
                /\ build' = BuildRecord("main", NoJsonData, database, load.rows, data,
                                        "indexed")
                /\ \E rows \in IndexResults(load.rows, data) :
                      database' = [ exists |-> TRUE, rows |-> rows ]
    /\ UNCHANGED << pipelineVars, toolVars, normVars >>

\* prepare_data_for_indexing called on its own
PrepareDataForIndexing ==
    /\ build.fn = "call"
    /\ build' = BuildRecord("prepare", build.json_data, NoDatabase, {},
                            prepare_data_for_indexing(build.json_data), "returned")
    /\ UNCHANGED << database, pipelineVars, toolVars, normVars >>

NextBuild ==
    \/ BuildDatabase
    \/ PrepareDataForIndexing

SpecBuild == InitBuild /\ [][NextBuild]_vars

\* ------------------------------------------------------------ claims
HasRecord(s) == processed_data[s].file = "written"
Failed(s) == outcome[s] = "failed"
Completed(s) == outcome[s] = "completed"
Skipped(s) == outcome[s] = "skipped"
Processed(s) == outcome[s] \in { "failed", "completed" }
NoArtifact(s) == xml_output[s] = Absent /\ cleaned_md[s] = Absent
\* the loop iteration of pdf_path is over
IterationOver == pdf_path \in Stems /\ pc \in { "loop", "done" }
FilesOf(d, s) == << s \in d.pdfs, d.xml_output[s], d.cleaned_md[s], s \in d.quarantined,
                    d.processed_data[s] >>

\* C1: when a run has completed, every document that failed in it is gone
\* from the source directory, is in the quarantine directory, and has no
\* record in the processed-records directory.
C1_QuarantineInvariant ==
    pc = "done" =>
        \A s \in Stems :
            Failed(s) => s \notin pdfs /\ s \in quarantined /\ ~HasRecord(s)

\* C2: when a run has completed, no xml and no md file remains for any
\* document the run processed, persisted or quarantined.
C2_NoIntermediateArtifactRemains ==
    pc = "done" => \A s \in Stems : Processed(s) => NoArtifact(s)

\* C3: when a run has completed, every document that went through the
\* whole pipeline has a record with a non-empty chunk list, is gone from the
\* source directory and is not in the quarantine directory.
C3_SuccessInvariant ==
    pc = "done" =>
        \A s \in Stems :
            Completed(s) =>
                /\ HasRecord(s)
                /\ processed_data[s].chunks # << >>
                /\ s \notin pdfs
                /\ s \notin quarantined

\* C4: a document identity is never in two of the states pending,
\* quarantined, processed and removed; stated for the states in which a run
\* has just completed.
C4_ExactlyOneState ==
    pc = "done" =>
        \A s \in Stems :
            /\ ~(s \in pdfs /\ s \in quarantined)
            /\ ~(s \in pdfs /\ HasRecord(s))
            /\ ~(s \in quarantined /\ HasRecord(s))

\* C5: a document is skipped exactly when its md file exists and the force
\* flag is not set; no stage and no request is made for a skipped document,
\* its files in all five directories are as they were when the run started,
\* and while every document taken so far was skipped the directories are
\* unchanged as a whole.
C5_SkipRule ==
    /\ \A s \in Stems :
        /\ Skipped(s) => atStart.cleaned_md[s] # Absent /\ ~FORCE_REPROCESS_PDF
        /\ outcome[s] \in { "processing", "failed", "completed", "raised" }
              => atStart.cleaned_md[s] = Absent \/ FORCE_REPROCESS_PDF
        /\ Skipped(s) => FilesOf(Dirs, s) = FilesOf(atStart, s)
    /\ (pdf_path \in Stems /\ Skipped(pdf_path))
          => stages = << >> /\ convRequests = 0 /\ llmRequests = 0
    /\ (\A s \in Stems : outcome[s] \in { "none", "skipped" }) => Dirs = atStart

C5_Witness ==
    /\ pc = "done"
    /\ \E s \in Stems : Skipped(s) /\ s \in pdfs /\ cleaned_md[s] # Absent
    /\ \E s \in Stems : Processed(s)

\* C6: a probe that is not answered with 200 halts the run with no request
\* made, no document taken and no directory changed; and no document is
\* taken and no conversion request made before a probe answered with 200.
C6_ProbeGate ==
    /\ probe \in { "non200", "connection_error" } => pc = "halted"
    /\ pc = "halted" =>
        /\ probe # "200"
        /\ Dirs = atStart
        /\ entered = NoCounts
        /\ convRequests = 0 /\ llmRequests = 0 /\ stages = << >>
    /\ ((\E s \in Stems : entered[s] > 0) \/ convRequests > 0) => probe = "200"

C6_Witness == pc = "halted" /\ probe = "non200" /\ pdfs # {}

\* C7: with the shipped template, a document whose markup was valid and
\* normalized and for which the endpoint answers with an object holding the
\* three keys and a non-empty cleaned text ends its iteration persisted: a
\* record with at least one chunk, the source removed, nothing in quarantine.
C7_ScenarioA ==
    ( /\ IterationOver
      /\ template = ShippedTemplate
      /\ Len(stages) >= 3
      /\ reply = "good" )
    => /\ Completed(pdf_path)
       /\ HasRecord(pdf_path)
       /\ Len(processed_data[pdf_path].chunks) >= 1
       /\ pdf_path \notin pdfs
       /\ pdf_path \notin quarantined

\* C8: main never raises, and when it returns every document found by the
\* scan has been taken by the loop.
C8_BatchNeverAborts ==
    /\ pc # "raised"
    /\ pc = "done" => \A s \in atStart.pdfs : entered[s] = 1

\* C9: when a run is over, every document that entered processing is
\* either persisted and cleaned or has been moved into quarantine.
C9_TerminalState ==
    pc \in { "done", "raised" } =>
        \A s \in Stems :
            (entered[s] > 0 /\ ~Skipped(s)) =>
                \/ Completed(s) /\ HasRecord(s) /\ s \notin pdfs /\ NoArtifact(s)
                \/ Failed(s) /\ s \in quarantined /\ s \notin pdfs

\* C10: in one run a document is taken by the loop at most once, causes at
\* most one conversion request and at most one language-model request, no
\* stage is invoked twice for it, and no stage runs for it once it failed.
C10_NoRetry ==
    /\ \A s \in Stems : entered[s] <= 1
    /\ convRequests <= 1
    /\ llmRequests <= 1
    /\ \A i, j \in 1..Len(stages) : stages[i] = stages[j] => i = j
    /\ pc \in { "convert", "normalize", "enrich", "chunk", "persist", "cleanup" }
          => outcome[pdf_path] = "processing"

C10_Witness ==
    /\ pc = "done"
    /\ \E s \in Stems : Failed(s)
    /\ Completed(pdf_path) /\ convRequests = 1 /\ llmRequests = 1

\* the record of pdf_path was written in the current loop iteration
FreshRecord == HasRecord(pdf_path) /\ processed_data[pdf_path].processed_timestamp = clock
\* the loop iteration of pdf_path ended in the failure branch of stage number n
FailedAt(n) == IterationOver /\ Failed(pdf_path) /\ Len(stages) = n
StageOrder == << "convert", "normalize", "enrich", "chunk", "persist", "clean" >>

\* C11: a document that was passed to the quarantine path and has not been
\* supplied again from outside never enters processing in a later run, and
\* every document the loop takes was in the source directory at the scan.
C11_NoStageWithoutResupply ==
    /\ \A s \in handled : outcome[s] \in { "none", "skipped", "failed" }
    /\ \A s \in Stems : entered[s] > 0 => s \in atStart.pdfs

\* C12: after a successful conversion the xml file holds the body of the 200
\* answer; after a failed conversion (any of the failure answers, a timeout
\* like the others) the source is in quarantine, gone from the source
\* directory, and no xml file exists for the document.
C12_ConversionContract ==
    /\ pc = "normalize" => xml_output[pdf_path] \in XmlBodies
    /\ FailedAt(1) =>
        /\ pdf_path \in quarantined
        /\ pdf_path \notin pdfs
        /\ xml_output[pdf_path] = Absent

\* C13: the enrichment stage hands on a value only when it is a JSON object
\* holding cleaned_text, summary and entities; after an enrichment failure
\* the document is in quarantine, has no record, and its xml and md files are
\* gone.
C13_EnrichmentContract ==
    /\ pc = "chunk" =>
        /\ enriched_data.type = "dict"
        /\ RequiredKeys \subseteq enriched_data.keys
    /\ FailedAt(3) =>
        /\ pdf_path \in quarantined
        /\ ~HasRecord(pdf_path)
        /\ NoArtifact(pdf_path)

\* C14: the persist step is reached only with a non-empty chunk list; after
\* an empty chunk list the document is in quarantine, its xml and md files
\* are gone, and this iteration wrote no record for it.
C14_EmptyChunksQuarantine ==
    /\ pc = "persist" => chunks # << >>
    /\ FailedAt(4) =>
        /\ chunks = << >>
        /\ pdf_path \in quarantined
        /\ NoArtifact(pdf_path)
        /\ ~FreshRecord

\* C15: when the persist step has ended, a record for the document exists.
C15_PersistSucceeds ==
    pc = "cleanup" => HasRecord(pdf_path)

\* C16: every record carries the name of its own source document, and the
\* record written by the persist step holds the enrichment's summary, its
\* entity list in the same order with duplicates, and the chunker's output in
\* the same order and of the same length.
C16_RecordFields ==
    /\ \A s \in Stems : HasRecord(s) => processed_data[s].source_filename = s
    /\ (pc = "cleanup" /\ FreshRecord) =>
        /\ processed_data[pdf_path].document_summary = enriched_data.summary
        /\ processed_data[pdf_path].key_entities = enriched_data.entities
        /\ processed_data[pdf_path].chunks = chunks
        /\ Len(processed_data[pdf_path].chunks) = Len(chunks)

C16_Witness ==
    /\ pc = "cleanup"
    /\ FreshRecord
    /\ Len(chunks) = 2 /\ chunks[1] # chunks[2]
    /\ Len(enriched_data.entities) = 3
    /\ enriched_data.entities[1] = enriched_data.entities[3]

\* C17: a record, once written, is never changed by any later step of any
\* run, and every document that completed the pipeline has a record.
C17_WriteOnce ==
    [][ /\ \A s \in Stems : HasRecord(s) => processed_data'[s] = processed_data[s]
        /\ \A s \in Stems : outcome'[s] = "completed" => processed_data'[s].file = "written"
      ]_vars

\* C18: query_database and get_chunk_by_id never raise; with the index
\* handle unavailable they return the fixed "Database is not available"
\* message and make no search; an empty result gives the not-found message,
\* and an error during the search gives an error-message string.
C18_ToolsNeverRaise ==
    tool_call.fn # "none" =>
        /\ tool_result # ToolRaised
        /\ ~tool_call.available =>
            /\ tool_result.text =
                 "Database is not available. Please ensure it has been built correctly."
            /\ tool_result.ids = << >>
            /\ searches = tool_call.before
        /\ tool_call.available => searches = tool_call.before + 1
        /\ (tool_call.available /\ tool_call.answer # "raises" /\ tool_call.empty) =>
            tool_result =
                IF tool_call.fn = "query_database"
                THEN ToolOutput("No relevant information was found in the database for your query.",
                                << >>)
                ELSE ToolOutput("The specified chunk ID does not exist in the database.",
                                << tool_call.arg >>)
        /\ (tool_call.available /\ tool_call.answer = "raises") =>
            tool_result.text \in
                { "An error occurred while searching the database. Please check the logs.",
                  "An error occurred while retrieving the chunk. Please check the logs." }

C18_Witness ==
    /\ tool_call.fn = "get_chunk_by_id"
    /\ ~tool_call.available
    /\ searches > 0
    /\ tool_result.text = "Database is not available. Please ensure it has been built correctly."

\* C19: the stages invoked for a document are an initial part of convert,
\* normalize, enrich, chunk, persist, clean; a document that failed has no
\* stage after the failed one; and the clean stage runs only after the
\* persist step wrote the record.
C19_StageOrder ==
    /\ Len(stages) <= Len(StageOrder)
    /\ \A i \in 1..Len(stages) : stages[i] = StageOrder[i]
    /\ (pdf_path \in Stems /\ Failed(pdf_path)) => pc \in { "loop", "done" }
    /\ (Len(stages) = 6) => FreshRecord

\* C20: while a run is under way, a step changes no file of any document
\* other than the one the loop is at, and the loop moves to the next
\* document only when the iteration of the previous one is over.
C20_OneAtATime ==
    [][ /\ pc # "idle" =>
            \A s \in Stems \ { pdf_path' } : FilesOf(Dirs', s) = FilesOf(Dirs, s)
        /\ pdf_path' # pdf_path => pc \in { "loop", "done", "halted", "raised" }
      ]_vars

C20_Witness ==
    /\ pc = "cleanup"
    /\ \E s \in Stems \ { pdf_path } : Failed(s) /\ s \in quarantined

\* C21: when the enrichment stage is about to run, the prompt it builds is
\* the template with the normalized text inserted once and unchanged; and
\* once the stage has run, exactly one request was sent to the endpoint.
C21_OnePromptOneRequest ==
    /\ pc = "enrich" =>
        /\ Prompt(pdf_path) # FormatError
        /\ Cardinality({ i \in DOMAIN Prompt(pdf_path) :
                           Prompt(pdf_path)[i] = cleaned_md[pdf_path] }) = 1
    /\ (pdf_path \in Stems /\ Len(stages) >= 3) => llmRequests = 1

\* C22: a failed normalization never leaves main; after it the source is in
\* quarantine and gone from the source directory, and neither an md file
\* nor the xml file of the document exists.
C22_NormalizationContract ==
    /\ (pdf_path \in Stems /\ Len(stages) = 2 /\ stages[2] = "normalize") => pc # "raised"
    /\ FailedAt(2) =>
        /\ pdf_path \in quarantined
        /\ pdf_path \notin pdfs
        /\ NoArtifact(pdf_path)

\* C23: every document that was in the source directory when the run
\* started is in the source directory, or in the quarantine directory, or
\* has a record.
C23_NoDocumentLost ==
    \A s \in atStart.pdfs : s \in pdfs \/ s \in quarantined \/ HasRecord(s)

\* C24: when a run has completed, a second run started on the directories
\* as they are would skip every file it finds: no document would enter
\* processing, so no request would be made and no file changed.
C24_SecondRunIdle ==
    pc = "done" => \A s \in pdfs : SkipDocument(s)

C26_QuarantineNeverPropagates ==
    (pdf_path \in Stems /\ Failed(pdf_path)) =>
        /\ pc \in { "loop", "done" }
        /\ \/ pdf_path \notin pdfs /\ pdf_path \in quarantined
           \/ /\ pdf_path \in pdfs
              /\ pdf_path \in quarantined <=> pdf_path \in atStart.quarantined

C26_Witness ==
    /\ pc = "done"
    /\ pdf_path \in Stems
    /\ Failed(pdf_path)
    /\ pdf_path \in pdfs /\ pdf_path \notin quarantined
    /\ \E s \in Stems : Failed(s) /\ s \notin pdfs /\ s \in quarantined

\* the text function fn was called and has returned
NormDone(fn) == norm_call.fn = fn /\ norm_result.done
\* the characters of a string that are not whitespace, in order
NonSpace(text) == SelectSeq(text, LAMBDA c : c \notin Whitespace)
\* the position of the j-th character that is not whitespace
PosNonSpace(text, j) ==
    CHOOSE i \in DOMAIN text :
        text[i] \notin Whitespace /\ Len(NonSpace(SubSeq(text, 1, i))) = j
\* the position of the k-th line break of a string, 0 for k = 0
PosNewline(text, k) ==
    IF k = 0 THEN 0
    ELSE CHOOSE i \in DOMAIN text : text[i] = "\n" /\ count(SubSeq(text, 1, i), "\n") = k
\* the k-th line of a string whose lines end in a line break
Line(text, k) == SubSeq(text, PosNewline(text, k - 1) + 1, PosNewline(text, k) - 1)
Letters(text) == SelectSeq(text, LAMBDA c : c \in { "a", "b" })
IsRowLine(line, row) ==
    /\ Len(line) >= 2
    /\ line[1] = "| " /\ line[Len(line)] = " |"
    /\ count(line, " | ") = IF Len(row) = 0 THEN 0 ELSE Len(row) - 1
    /\ count(line, "---") = 0 /\ count(line, "|") = 0
    /\ Letters(line) = Letters(join(row, " "))
IsSeparatorLine(line, k) ==
    /\ Len(line) = IF k = 0 THEN 2 ELSE 2 * k + 1
    /\ line[1] = "|" /\ line[Len(line)] = "|"
    /\ count(line, "---") = k
    /\ count(line, "|") = Len(line) - k
PartRank(part) ==
    IF part.md = "title" THEN 0
    ELSE IF part.md = "abstract_heading" THEN 1
    ELSE IF part.md = "abstract_p" THEN 2
    ELSE 3

\* C27: the heading of a section has as many '#' as its numbering label
\* has dots, plus 2; a head without numbering label gets 2.
C27_HeadingDepth ==
    /\ NormDone("heading") =>
        /\ \A i \in DOMAIN norm_result.text : norm_result.text[i] = "#"
        /\ Len(norm_result.text) =
             IF norm_call.label = NoLabel THEN 2
             ELSE Cardinality({ i \in DOMAIN norm_call.label : norm_call.label[i] = "." }) + 2
    /\ NormDone("convert_xml_to_md") =>
        \A i \in DOMAIN norm_result.parts :
            norm_result.parts[i].md = "heading" =>
                norm_result.parts[i].level =
                    IF norm_call.tei.body[norm_result.parts[i].src] = "div_head_n"
                    THEN 3 ELSE 2

C27_Witness ==
    /\ NormDone("heading")
    /\ norm_call.label = << "1", ".", "1" >>
    /\ norm_result.text = << "#", "#", "#" >>

\* C28: for a table of n >= 1 rows the result has n + 1 lines: the line of
\* the first row, a separator with one '---' per cell of the first row, then
\* the lines of the other rows in order, none of them a separator.
C28_TableToMarkdown ==
    (NormDone("table_to_markdown") /\ Len(norm_call.table) >= 1) =>
        /\ count(norm_result.text, "\n") = Len(norm_call.table) + 1
        /\ norm_result.text[Len(norm_result.text)] = "\n"
        /\ IsRowLine(Line(norm_result.text, 1), norm_call.table[1])
        /\ IsSeparatorLine(Line(norm_result.text, 2), Len(norm_call.table[1]))
        /\ \A k \in 2..Len(norm_call.table) :
              IsRowLine(Line(norm_result.text, k + 1), norm_call.table[k])

C28_Witness ==
    /\ NormDone("table_to_markdown")
    /\ Len(norm_call.table) = 2
    /\ Len(norm_call.table[1]) = 2
    /\ norm_call.table[1][2] = << " ", "a", "\n", "b" >>
    /\ Len(norm_call.table[2]) = 1

\* C29: the result of clean_text has no whitespace at its ends, its only
\* whitespace is single spaces, its other characters are those of the input
\* in order, two of them are separated by a space exactly when whitespace
\* separated them in the input, and cleaning it again changes nothing.
C29_CleanText ==
    NormDone("clean_text") =>
        /\ norm_result.text # << >> =>
            /\ norm_result.text[1] \notin Whitespace
            /\ norm_result.text[Len(norm_result.text)] \notin Whitespace
        /\ \A i \in DOMAIN norm_result.text :
            norm_result.text[i] \in Whitespace =>
                /\ norm_result.text[i] = " "
                /\ i < Len(norm_result.text) => norm_result.text[i + 1] \notin Whitespace
        /\ NonSpace(norm_result.text) = NonSpace(norm_call.text)
        /\ \A j \in 1..(Len(NonSpace(norm_call.text)) - 1) :
            (PosNonSpace(norm_result.text, j + 1) > PosNonSpace(norm_result.text, j) + 1)
              <=> (PosNonSpace(norm_call.text, j + 1) > PosNonSpace(norm_call.text, j) + 1)
        /\ clean_text(norm_result.text) = norm_result.text

C29_Witness ==
    /\ NormDone("clean_text")
    /\ norm_call.text = << " ", "a", "\t", "\n" >> \/ norm_call.text = << "a", "\t", "\n", "b" >>
    /\ norm_result.text \in { << "a" >>, << "a", " ", "b" >> }

\* C30: the entries of the normalized text are the title, then the abstract
\* heading and the abstract's paragraphs in order, then the entries of the
\* body in the order of the elements they come from; every paragraph and
\* formula of a section has its entry, at its place among its siblings.
C30_DocumentOrder ==
    NormDone("convert_xml_to_md") =>
        /\ \A i, j \in DOMAIN norm_result.parts :
            i < j =>
                /\ PartRank(norm_result.parts[i]) <= PartRank(norm_result.parts[j])
                /\ PartRank(norm_result.parts[i]) = PartRank(norm_result.parts[j])
                      => norm_result.parts[i].src <= norm_result.parts[j].src
        /\ norm_call.tei.title <=>
              (norm_result.parts # << >> /\ norm_result.parts[1].md = "title")
        /\ \A n \in 1..MaxParagraphs :
              (n <= norm_call.tei.abstract) <=>
                  (\E i \in DOMAIN norm_result.parts :
                      norm_result.parts[i].md = "abstract_p" /\ norm_result.parts[i].src = n)
        /\ \A i \in DOMAIN norm_result.parts :
              norm_result.parts[i].md \in { "p", "formula" } =>
                  norm_call.tei.body[norm_result.parts[i].src] = norm_result.parts[i].md
        /\ \A n \in DOMAIN norm_call.tei.body :
              ( /\ norm_call.tei.body[n] \in { "p", "formula" }
                /\ \E m \in 1..n : norm_call.tei.body[m] \in DivKinds )
              => Cardinality({ i \in DOMAIN norm_result.parts :
                                 norm_result.parts[i].src = n
                                 /\ norm_result.parts[i].md = norm_call.tei.body[n] }) = 1

C30_Witness ==
    /\ NormDone("convert_xml_to_md")
    /\ norm_call.tei.title /\ norm_call.tei.abstract = 1
    /\ norm_call.tei.body = << "div_head", "formula", "p" >>
    /\ Len(norm_result.parts) = 6
    /\ norm_result.parts[5].md = "formula" /\ norm_result.parts[6].md = "p"

\* the texts of citation markers and footnotes
MarkerTexts == { "[1]", "fn" }
\* what an element's text must be: the text of its children that are
\* neither citation markers nor footnotes, blanks at the ends dropped and
\* runs of blanks reduced to one
WordsOf(content) ==
    SelectSeq([ k \in DOMAIN content |-> NodeText(content[k]) ],
              LAMBDA w : w \notin MarkerTexts \cup { " " })

\* C31: no text of a citation marker or of a footnote is in the text of the
\* title, of the abstract or of any entry of the body; the other text of
\* the elements, other references and notes included, is kept.
C31_NoCitationText ==
    NormDone("convert_xml_to_md") =>
        \A i \in DOMAIN norm_result.parts :
            /\ \A k \in DOMAIN norm_result.parts[i].text :
                  norm_result.parts[i].text[k] \notin MarkerTexts
            /\ norm_result.parts[i].md # "abstract_heading" =>
                  SelectSeq(norm_result.parts[i].text, LAMBDA w : w # " ")
                      = WordsOf(norm_call.tei.inline)

C31_Witness ==
    /\ NormDone("convert_xml_to_md")
    /\ norm_call.tei.inline = << "text", "ref_bibr" >>
    /\ norm_call.tei.title /\ norm_call.tei.abstract = 1
    /\ norm_call.tei.body = << "div_head", "p", "formula" >>
    /\ \A i \in DOMAIN norm_result.parts :
          norm_result.parts[i].md # "abstract_heading" => norm_result.parts[i].text = << "a" >>
    /\ Len(norm_result.parts) = 6

\* the entries of kind md made from body node n
PartsOf(md, n) ==
    { i \in DOMAIN norm_result.parts :
        norm_result.parts[i].md = md /\ norm_result.parts[i].src = n }
\* body node n is a child of a top-level div
InSection(n) == \E m \in 1..n : norm_call.tei.body[m] \in DivKinds

\* C32: a figure of a section gets the image-description placeholder
\* exactly when it has a caption and no table; a figure with a table gets
\* the table grid and nothing else.
C32_FigureRendering ==
    NormDone("convert_xml_to_md") =>
        \A n \in DOMAIN norm_call.tei.body :
            InSection(n) =>
                /\ (PartsOf("image", n) # {}) <=> (norm_call.tei.body[n] = "figure_desc")
                /\ norm_call.tei.body[n] \in { "figure_table", "figure_table_desc" }
                      => /\ Cardinality(PartsOf("table", n)) = 1
                         /\ PartsOf("image", n) = {}

\* the source documents of the index the build loaded
LoadedSources == { r.source_filename : r \in build.loaded }

\* C33: the build prepares no record whose source document is in the index
\* it loaded, and when every record's source document is in that index it
\* reports the database up to date and leaves it as it was.
C33_IndexOnlyNew ==
    build.fn = "main" =>
        /\ \A i \in DOMAIN build.prepared :
              build.prepared[i].source_filename \notin LoadedSources
        /\ ( /\ build.outcome # "aborted"
             /\ \A s \in Stems :
                   HasRecord(s) => PdfName(processed_data[s].source_filename) \in LoadedSources )
           => (build.outcome = "up_to_date" /\ database = build.before)

\* the number a sequence of decimal digits stands for
DigitValue(c) == CHOOSE d \in 0..9 : ToString(d) = c
RECURSIVE DecimalValue(_)
DecimalValue(digits) ==
    IF digits = << >> THEN 0
    ELSE 10 * DecimalValue(SubSeq(digits, 1, Len(digits) - 1)) + DigitValue(digits[Len(digits)])
\* the stem the identifiers of a record start with
RecordStem(json_data) ==
    IF ~json_data.has_source THEN << "Unknown" >>
    ELSE IF Len(json_data.source_filename) > 1
         THEN [ i \in 1..(Len(json_data.source_filename) - 1) |-> json_data.source_filename[i] ]
         ELSE json_data.source_filename

\* C34: prepare_data_for_indexing returns one entry per chunk, in chunk
\* order; the identifier of the k-th is the stem of source_filename, then
\* "_chunk_", then k in decimal digits, padded with zeros to 3 digits and
\* never cut; the identifiers of one record are pairwise distinct.
C34_ChunkIdentifiers ==
    build.fn = "prepare" =>
        LET n == Len(RecordStem(build.json_data)) IN
        /\ Len(build.prepared) = Len(build.json_data.chunks)
        /\ \A k \in DOMAIN build.prepared :
              LET id == build.prepared[k].id
                  number == SubSeq(id, n + 2, Len(id))
              IN  /\ build.prepared[k].text = build.json_data.chunks[k]
                  /\ Len(id) >= n + 1 + PadWidth
                  /\ SubSeq(id, 1, n) = RecordStem(build.json_data)
                  /\ id[n + 1] = "_chunk_"
                  /\ DecimalValue(number) = k
                  /\ Len(number) > PadWidth => number[1] # "0"
        /\ \A j, k \in DOMAIN build.prepared :
              j < k => build.prepared[j].id # build.prepared[k].id

C34_Witness ==
    /\ build.fn = "prepare"
    /\ build.json_data.has_source
    /\ build.json_data.source_filename = << "1", ".v2", ".pdf" >>
    /\ Len(build.prepared) = 10 ^ PadWidth + 1
    /\ build.prepared[1].id = << "1", ".v2", "_chunk_", "0", "0", "1" >>
    /\ build.prepared[10 ^ PadWidth].id = << "1", ".v2", "_chunk_", "1", "0", "0", "0" >>
====
